---- MODULE Spec2Model ----
(***************************************************************************)
(* Verification model of sandstone-cli.                                    *)
(*                                                                         *)
(* Part 1: the watch loop of src/commands/watch.ts (watchCommand, the      *)
(* revision with a single parcel-watcher subscription, lines 500-821).     *)
(* The event loop is single threaded: every action below is one callback   *)
(* or one run of an async function between two suspension points (await).  *)
(***************************************************************************)
EXTENDS Naturals, Integers, Sequences, FiniteSets, TLC

----------------------------------------------------------------------------
(* Bounds of the model                                                     *)

\* largest number of events the watcher delivers in one batch
MaxBatch == 2
\* manual mode: the pending list is only ever appended to (watch.ts:767),
\* event batches are accepted while the appended list stays within this length
MaxPending == 2
\* largest number of files one build hands to the cache (generated and copied together)
MaxFiles == 2

----------------------------------------------------------------------------
(* Paths.  A path is the sequence of the pieces of its string, so that     *)
(* String.endsWith / String.includes / replaceAll are computed on it.      *)

Range(s) == {s[i] : i \in 1..Len(s)}

\* p.endsWith(suffix)
EndsWith(p, suffix) ==
    /\ Len(suffix) <= Len(p)
    /\ \A i \in 1..Len(suffix) : p[Len(p) - Len(suffix) + i] = suffix[i]

\* p.includes(part)
Includes(p, part) ==
    \E k \in 0..(Len(p) - Len(part)) :
        \A i \in 1..Len(part) : p[k + i] = part[i]

\* utils: normalizePath = p.replaceAll('\\', '/')
normalizePath(p) == [i \in 1..Len(p) |-> IF p[i] = "\\" THEN "/" ELSE p[i]]

\* The files the watcher reports in this model (raw paths, as delivered; the
\* node_modules file with Windows separators).
SrcA        == <<"src", "/", "a", ".ts">>
Manifest    == <<"package", ".json">>
YarnLock    == <<"yarn", ".lock">>
NpmLock     == <<"package", "-lock", ".json">>
PnpmLock    == <<"pnpm", "-lock", ".yaml">>
ConfigFile  == <<"sandstone.config", ".ts">>
NodeModule  == <<"node_modules", "\\", "x", ".js">>

RawPaths == {SrcA, Manifest, YarnLock, NpmLock, PnpmLock, ConfigFile, NodeModule}

\* An event batch: 1..MaxBatch distinct files, in the order delivered.
RECURSIVE SeqsOver(_, _)
SeqsOver(S, n) ==
    IF n = 0 THEN {<<>>}
    ELSE LET shorter == SeqsOver(S, n - 1)
         IN  shorter \cup {Append(s, x) : s \in {t \in shorter : Len(t) = n - 1},
                                          x \in S}

IsInjective(s) == \A i, j \in 1..Len(s) : i # j => s[i] # s[j]

EventBatches == {b \in SeqsOver(RawPaths, MaxBatch) : Len(b) >= 1 /\ IsInjective(b)}

\* categorizeChange (watch.ts:808-821)
categorizeChange(eventPath) ==
    IF Includes(eventPath, <<"src", "/">>) THEN "src"
    ELSE IF Includes(eventPath, <<"resources", "/">>) THEN "resources"
    ELSE IF EndsWith(eventPath, <<"sandstone.config", ".ts">>) THEN "config"
    ELSE IF \/ EndsWith(eventPath, <<".lock">>)
            \/ EndsWith(eventPath, <<"-lock", ".yml">>)
            \/ EndsWith(eventPath, <<"-lock", ".json">>)
            \/ Includes(eventPath, <<"node_modules", "/">>) THEN "dependencies"
    ELSE "other"

\* handleEvents, the test of lines 702-713 on one normalized path
RequiresRestart(eventPath) ==
    LET lockFile == \/ EndsWith(eventPath, <<".lock">>)
                    \/ EndsWith(eventPath, <<"-lock", ".yml">>)
                    \/ EndsWith(eventPath, <<"-lock", ".json">>)
    IN  \/ lockFile
        \/ Includes(eventPath, <<"node_modules", "/">>)
        \/ EndsWith(eventPath, <<"sandstone.config", ".ts">>)

\* handleEvents, the test of lines 715-721 on one normalized path
IsTracked(eventPath) ==
    \/ Includes(eventPath, <<"src", "/">>)
    \/ Includes(eventPath, <<"resources", "/">>)
    \/ EndsWith(eventPath, <<".js">>)
    \/ EndsWith(eventPath, <<".json">>)
    \/ EndsWith(eventPath, <<".ts">>)

TrackedChange(eventPath) == [path |-> eventPath, category |-> categorizeChange(eventPath)]

\* handleEvents, lines 699-727: the tracked changes of a batch, in order
RECURSIVE trackedChanges(_)
trackedChanges(events) ==
    IF events = <<>> THEN <<>>
    ELSE LET eventPath == normalizePath(Head(events))
             rest == trackedChanges(Tail(events))
         IN  IF IsTracked(eventPath) THEN <<TrackedChange(eventPath)>> \o rest ELSE rest

\* handleEvents, lines 694-713: needsRestart of a batch
needsRestart(events) == \E i \in 1..Len(events) : RequiresRestart(normalizePath(events[i]))

PathsOf(changes) == {changes[i].path : i \in 1..Len(changes)}

\* for (change of changes) if (!acc.some(c => c.path === change.path)) acc.push(change)
\* (watch.ts:547-551 and 743-747)
RECURSIVE Accumulate(_, _)
Accumulate(acc, changes) ==
    IF changes = <<>> THEN acc
    ELSE Accumulate(IF Head(changes).path \in PathsOf(acc) THEN acc
                    ELSE Append(acc, Head(changes)),
                    Tail(changes))

----------------------------------------------------------------------------
(* State of watchCommand (watch.ts:500-799)                                *)

VARIABLES
    manual,            \* opts.manual ?? false
    alreadyBuilding,   \* watch.ts:501
    needRebuild,       \* watch.ts:502
    pendingChanges,    \* watch.ts:503
    buildContext,      \* watch.ts:504, TRUE when defined
    hotInitialized,    \* watch.ts:505
    lastBuildFailed,   \* watch.ts:506
    restartTimeout,    \* watch.ts:673, TRUE when a restart timer is armed
    debouncedChanges,  \* watch.ts:674
    debounceScheduled, \* watch.ts:675
    debounceTimers,    \* number of setTimeout(..., 200) callbacks of line 755 not yet run
    inflight,          \* the onFilesChange calls suspended at an await, oldest first
    mainPc,            \* where watchCommand itself is (lines 781-798)
    subscription,      \* "none" (undefined), "active", "closing", "closed"
    ui,                \* "rendered" (API effect not run yet), "ready", "unmounted"
    status,            \* WatchUI status (WatchUI.tsx:187), "gone" once unmounted by exit()
    exiting,           \* TRUE while exit() awaits subscription.unsubscribe()
    processExit,       \* "no" while the process runs, else why it ended
    \* history, for stating the properties
    arrived,           \* paths handed to onFilesChange while the current call was in flight
    arrivals,          \* how many such change-sets (counted up to 2)
    unbuilt            \* tracked paths delivered and not yet in a started build's change-set

codeVars == <<manual, alreadyBuilding, needRebuild, pendingChanges, buildContext,
              hotInitialized, lastBuildFailed, restartTimeout, debouncedChanges,
              debounceScheduled, debounceTimers, inflight, mainPc, subscription, ui,
              status, exiting, processExit>>
histVars == <<arrived, arrivals, unbuilt>>
watchVars == <<codeVars, histVars>>

----------------------------------------------------------------------------
(* State of one process running _buildProject (commands/build.ts)          *)

VARIABLES
    cache,             \* build.ts:84, the module variable: [defined, entries]
    cacheFile,         \* .sandstone/cache.json: [state, entries]
    output,            \* .sandstone/output: the content of each file in it
    newCache,          \* build.ts:306
    dry,               \* cliOptions.dry === true
    plan,              \* what the pack and the resources folder hold in this build
    saved,             \* how many files of plan.generated sandstonePack.save has handed over
    copied,            \* how many files of plan.resources handleResources has gone through
    bpc,               \* where _buildProject is
    worldName,         \* build.ts:259
    root,              \* build.ts:264
    result,            \* what _buildCommand returned last: "none", "success", "failure"
    context,           \* the process holds the BuildContext of a build (watch.ts:643-650)
    \* history, for stating the properties
    imported,          \* modules imported in this build: "config", "entrypoint"
    written,           \* paths the file handler and handleResources wrote in this build
    deleted,           \* paths the clean-up removed in this build
    otherWrites,       \* what else the build wrote: "client" (the export to the client)
    atStart,           \* cache, cacheFile and output when the build started
    repeat             \* "next": the build just before was successful and not dry;
                       \* "yes": so it was, and this build has the same plan; else "no"

buildVars == <<cache, cacheFile, output, newCache, dry, plan, saved, copied, bpc,
               worldName, root, result, context, imported, written, deleted, otherWrites,
               atStart, repeat>>

----------------------------------------------------------------------------
(* State of one call of countResources (commands/build.ts) and of one       *)
(* DependencyGraph (build/graph.ts)                                         *)

VARIABLES
    resourceNodes,     \* sandstonePack.core.resourceNodes, the argument of countResources
    counts,            \* what countResources returned: [returned, functions, other]
    nodes,             \* DependencyGraph.nodes: name -> [dependencies, dependsOn]
    traversed,         \* the names of the nodes whose traversed flag is true
    stack,             \* the calls of getDependencies / getDependsOn in progress
    returned,          \* the outermost call and, once it has returned, its result
    \* history, for stating the properties
    lastCall           \* the last call on the graph: its method, the names of its argument

countVars == <<resourceNodes, counts>>

traverseVars == <<traversed, stack, returned>>

graphVars == <<nodes, lastCall, traverseVars>>

----------------------------------------------------------------------------
(* State of one process running _buildProject of build/buildProject.ts,     *)
(* whose dependenciesCache is the graph above                               *)

VARIABLES
    madge,             \* the files under the project folder and their imports, as madge
                       \* found them at line 290
    changedFiles,      \* the argument changedFiles: [defined, paths]
    newModules,        \* buildProject.ts:313
    built,             \* how many nodes of newModules the loop of line 334 has gone through
    requireCache,      \* the modules in require.cache
    packResources,     \* sandstonePack.core.resourceNodes
    fileResources,     \* buildProject.ts:79: module -> the resources recorded for it
    ppc,               \* where _buildProject is
    builds,            \* how many builds the process has started
    resourcesCall,     \* the promise of the handleResources call that nothing awaits
                       \* (buildProject.ts:522, 603): "notCalled", "pending", "settled"
    \* history, for stating the properties
    thrown             \* the nodes of newModules whose require threw in this build

projectVars == <<madge, changedFiles, newModules, built, requireCache, packResources,
                 fileResources, ppc, builds, resourcesCall, thrown>>

vars == <<watchVars, buildVars, countVars, graphVars, projectVars>>

\* a map (object used as dictionary) is a function on its keys
NoEntries == <<>>

\* countResources has not been called
NoCounts == [returned |-> FALSE, functions |-> 0, other |-> 0]

CountAtRest ==
    /\ resourceNodes = <<>>
    /\ counts = NoCounts

\* the graph of new DependencyGraph({})
NoCall == [method |-> "none", node |-> "none", recursive |-> FALSE, includeSelf |-> FALSE]

\* no getDependencies or getDependsOn is running
TraverseAtRest ==
    /\ traversed = {}
    /\ stack = <<>>
    /\ returned = [done |-> FALSE, call |-> NoCall, value |-> {}]

\* no _buildProject of build/buildProject.ts has run in this process
ProjectAtRest ==
    /\ madge = NoEntries
    /\ changedFiles = [defined |-> FALSE, paths |-> {}]
    /\ newModules = <<>>
    /\ built = 0
    /\ requireCache = {}
    /\ packResources = {}
    /\ fileResources = NoEntries
    /\ ppc = "idle"
    /\ builds = 0
    /\ resourcesCall = "notCalled"
    /\ thrown = {}

GraphAtRest ==
    /\ nodes = NoEntries
    /\ lastCall = [method |-> "constructor", names |-> {}]
    /\ TraverseAtRest

\* no build has run in this process
BuildAtRest ==
    /\ cache = [defined |-> FALSE, entries |-> NoEntries]
    /\ cacheFile = [state |-> "missing", entries |-> NoEntries]
    /\ output = NoEntries
    /\ newCache = NoEntries
    /\ dry = FALSE
    /\ plan = [generated |-> <<>>, resources |-> <<>>]
    /\ saved = 0
    /\ copied = 0
    /\ bpc = "idle"
    /\ worldName = "undefined"
    /\ root = "undefined"
    /\ result = "none"
    /\ context = FALSE
    /\ imported = {}
    /\ written = {}
    /\ deleted = {}
    /\ otherWrites = {}
    /\ atStart = NoEntries
    /\ repeat = "no"

\* the variables onFilesChange reads and writes, as one record
Cur == [alreadyBuilding |-> alreadyBuilding, needRebuild |-> needRebuild,
        pendingChanges |-> pendingChanges, inflight |-> inflight, status |-> status]

Commit(w) ==
    /\ alreadyBuilding' = w.alreadyBuilding
    /\ needRebuild' = w.needRebuild
    /\ pendingChanges' = w.pendingChanges
    /\ inflight' = w.inflight
    /\ status' = w.status

\* getWatchUIAPI()?.setStatus(s): a no-op while the API is not registered
setStatus(old, new) == IF ui = "ready" THEN new ELSE old

\* Faulty variant of setBuildResult: a success gives watching in manual mode too.
setBuildResult_AlwaysWatching(success) == IF success THEN "watching" ELSE "error"

\* WatchUI.setBuildResult (WatchUI.tsx:217-224)
setBuildResult(success) ==
    IF success THEN (IF manual THEN "pending" ELSE "watching") ELSE "error"

\* Faulty variants of onFilesChange, each breaking one of its duties.
\* Without the alreadyBuilding guard: every call starts a build.
onFilesChange_NoGuard(w, changes) ==
    [w EXCEPT !.alreadyBuilding = TRUE,
              !.status = setStatus(@, "building"),
              !.inflight = Append(@, [changes |-> changes, phase |-> "prepare",
                                      api |-> (ui = "ready")])]

\* Queueing replaces the pending list instead of merging into it.
onFilesChange_Overwrite(w, changes) ==
    IF w.alreadyBuilding
    THEN [w EXCEPT !.needRebuild = TRUE, !.pendingChanges = changes]
    ELSE onFilesChange_NoGuard(w, changes)

\* A change-set that arrives during a build is added to the running call's change-set.
onFilesChange_MergeIntoRunning(w, changes) ==
    IF w.alreadyBuilding
    THEN IF w.inflight = <<>> THEN w
         ELSE [w EXCEPT !.inflight[1].changes = Accumulate(@, changes)]
    ELSE onFilesChange_NoGuard(w, changes)

\* onFilesChange up to its first await (watch.ts:542-560)
onFilesChange(w, changes) ==
    IF w.alreadyBuilding
    THEN [w EXCEPT !.needRebuild = TRUE,
                   !.pendingChanges = Accumulate(@, changes)]
    ELSE [w EXCEPT !.alreadyBuilding = TRUE,
                   !.status = setStatus(@, "building"),
                   !.inflight = Append(@, [changes |-> changes, phase |-> "prepare",
                                           api |-> (ui = "ready")])]

\* Faulty variants of afterBuild (lastBuildFailed' is the result of the build that ended).
\* A failed build returns before the guard is released.
afterBuild_StuckOnFailure(w) ==
    IF lastBuildFailed' THEN w
    ELSE LET released == [w EXCEPT !.alreadyBuilding = FALSE]
         IN  IF released.needRebuild
             THEN onFilesChange([released EXCEPT !.needRebuild = FALSE,
                                                 !.pendingChanges = <<>>],
                                released.pendingChanges)
             ELSE released

\* A failed build is followed by another build although nothing was queued.
afterBuild_RetryOnFailure(w) ==
    LET released == [w EXCEPT !.alreadyBuilding = FALSE]
    IN  IF released.needRebuild \/ lastBuildFailed'
        THEN onFilesChange([released EXCEPT !.needRebuild = FALSE, !.pendingChanges = <<>>],
                           released.pendingChanges)
        ELSE released

\* The guard is released and the queue is left as it is: no rebuild.
afterBuild_NoRebuild(w) == [w EXCEPT !.alreadyBuilding = FALSE]

\* onFilesChange after _buildCommand returned (watch.ts:662-670)
afterBuild(w) ==
    LET released == [w EXCEPT !.alreadyBuilding = FALSE]
    IN  IF released.needRebuild
        THEN onFilesChange([released EXCEPT !.needRebuild = FALSE, !.pendingChanges = <<>>],
                           released.pendingChanges)
        ELSE released

RemoveAt(s, i) == [k \in 1..(Len(s) - 1) |-> IF k < i THEN s[k] ELSE s[k + 1]]

Min(a, b) == IF a < b THEN a ELSE b

\* history: the paths in the change-sets of the calls a step started
NewChanges(before, after) ==
    UNION {PathsOf(after[k].changes) : k \in (before + 1)..Len(after)}

Init ==
    /\ manual \in BOOLEAN
    /\ ui \in {"rendered", "ready"}
    \* watchCommand has run up to `await onFilesChange([])` (line 781), and that call
    \* up to its first await
    /\ alreadyBuilding = TRUE
    /\ needRebuild = FALSE
    /\ pendingChanges = <<>>
    /\ buildContext = FALSE
    /\ hotInitialized = FALSE
    /\ lastBuildFailed = FALSE
    /\ restartTimeout = FALSE
    /\ debouncedChanges = <<>>
    /\ debounceScheduled = FALSE
    /\ debounceTimers = 0
    /\ inflight = <<[changes |-> <<>>, phase |-> "prepare", api |-> (ui = "ready")]>>
    /\ mainPc = "initialBuild"
    /\ subscription = "none"
    /\ status = IF ui = "ready" THEN "building"
                ELSE IF manual THEN "pending" ELSE "watching"
    /\ exiting = FALSE
    /\ processExit = "no"
    /\ arrived = {}
    /\ arrivals = 0
    /\ unbuilt = {}
    /\ BuildAtRest
    /\ CountAtRest
    /\ GraphAtRest
    /\ ProjectAtRest

Running == processExit = "no"

\* watchCommand is not running (the build command alone)
WatchAtRest ==
    /\ manual = FALSE
    /\ alreadyBuilding = FALSE
    /\ needRebuild = FALSE
    /\ pendingChanges = <<>>
    /\ buildContext = FALSE
    /\ hotInitialized = FALSE
    /\ lastBuildFailed = FALSE
    /\ restartTimeout = FALSE
    /\ debouncedChanges = <<>>
    /\ debounceScheduled = FALSE
    /\ debounceTimers = 0
    /\ inflight = <<>>
    /\ mainPc = "none"
    /\ subscription = "none"
    /\ ui = "unmounted"
    /\ status = "gone"
    /\ exiting = FALSE
    /\ processExit = "no"
    /\ arrived = {}
    /\ arrivals = 0
    /\ unbuilt = {}

\* History bookkeeping of one step.  base: the calls in flight that the step leaves
\* suspended; after: inflight after the step; calls: the change-sets the step handed to
\* onFilesChange; delivered: the paths the step received from the watcher.
History(base, after, calls, delivered, flightEnded) ==
    LET started == Len(after) - base
        inBuild == NewChanges(base, after)
        queued  == IF base >= 1 /\ ~flightEnded THEN calls ELSE {}
    IN  /\ UNCHANGED <<buildVars, countVars, graphVars, projectVars>>
        /\ unbuilt' = (unbuilt \cup delivered) \ inBuild
        /\ arrived' = IF flightEnded \/ started > 0 THEN {}
                      ELSE arrived \cup UNION {PathsOf(c) : c \in queued}
        /\ arrivals' = IF flightEnded \/ started > 0 THEN 0
                       ELSE Min(arrivals + Cardinality(queued), 2)

\* React runs WatchUI's effect that registers the API (WatchUI.tsx:266-280) once the
\* event loop turns after render(); every await of watchCommand lets it run.
FlushEffects(u) == IF u = "rendered" THEN "ready" ELSE u

----------------------------------------------------------------------------
(* handleEvents (watch.ts:692-776), the subscription callback of line 785  *)

\* the loop of lines 699-727 on every batch of the model
BatchResult == [b \in EventBatches |-> [trackedChanges |-> trackedChanges(b),
                                        needsRestart |-> needsRestart(b)]]

\* Faulty variant of scheduleDebounce: a timer for every batch.
scheduleDebounce_Always(scheduled, timers) == timers + 1

\* lines 751-755: a new timer only when none is scheduled; the number of timers after
scheduleDebounce(scheduled, timers) == IF scheduled THEN timers ELSE timers + 1

HandleEvents(events) ==
    LET tracked == BatchResult[events].trackedChanges
        restart == BatchResult[events].needsRestart
        delivered == {c.path : c \in {tracked[i] : i \in 1..Len(tracked)}}
        nonRestart == {q \in delivered : ~RequiresRestart(q)}
    IN  /\ Running
        /\ subscription = "active"
        /\ manual => Len(pendingChanges) + Len(Accumulate(debouncedChanges, tracked)) <= MaxPending
        /\ IF tracked = <<>> /\ ~restart
           THEN \* line 729
                UNCHANGED <<restartTimeout, debouncedChanges, debounceScheduled, debounceTimers>>
           ELSE IF restart
           THEN \* lines 733-740: clearTimeout, then a new timer
                /\ restartTimeout' = TRUE
                /\ UNCHANGED <<debouncedChanges, debounceScheduled, debounceTimers>>
           ELSE \* lines 742-775
                /\ debouncedChanges' = Accumulate(debouncedChanges, tracked)
                /\ debounceTimers' = scheduleDebounce(debounceScheduled, debounceTimers)
                /\ debounceScheduled' = TRUE
                /\ UNCHANGED restartTimeout
        /\ UNCHANGED <<manual, alreadyBuilding, needRebuild, pendingChanges, buildContext,
                       hotInitialized, lastBuildFailed, inflight, mainPc, subscription, ui,
                       status, exiting, processExit>>
        /\ History(Len(inflight), inflight, {}, nonRestart, FALSE)

\* Faulty variant of the timer callback: the manual flag is not looked at.
DebounceFire_IgnoreManual ==
    LET changesToProcess == debouncedChanges
    IN  /\ Running
        /\ debounceTimers > 0
        /\ debounceTimers' = debounceTimers - 1
        /\ debounceScheduled' = FALSE
        /\ debouncedChanges' = <<>>
        /\ IF changesToProcess = <<>>
           THEN /\ Commit(Cur)
                /\ History(Len(inflight), inflight, {}, {}, FALSE)
           ELSE LET w == onFilesChange(Cur, changesToProcess)
                IN  /\ Commit(w)
                    /\ History(Len(inflight), w.inflight,
                               {changesToProcess}, {}, FALSE)
        /\ UNCHANGED <<manual, buildContext, hotInitialized, lastBuildFailed,
                       restartTimeout, mainPc, subscription, ui, exiting, processExit>>

\* the timer callback of handleEvents (watch.ts:755-775)
DebounceFire ==
    LET changesToProcess == debouncedChanges
    IN  /\ Running
        /\ debounceTimers > 0
        /\ debounceTimers' = debounceTimers - 1
        /\ debounceScheduled' = FALSE
        /\ debouncedChanges' = <<>>
        /\ IF changesToProcess = <<>>
           THEN /\ Commit(Cur)
                /\ History(Len(inflight), inflight, {}, {}, FALSE)
           ELSE IF manual
           THEN /\ Commit([Cur EXCEPT !.pendingChanges = @ \o changesToProcess,
                                      !.status = setStatus(@, "pending")])
                /\ History(Len(inflight), inflight, {}, {}, FALSE)
           ELSE LET w == onFilesChange(Cur, changesToProcess)
                IN  /\ Commit(w)
                    /\ History(Len(inflight), w.inflight,
                               {changesToProcess}, {}, FALSE)
        /\ UNCHANGED <<manual, buildContext, hotInitialized, lastBuildFailed,
                       restartTimeout, mainPc, subscription, ui, exiting, processExit>>

\* restart (watch.ts:677-690), the timer callback of line 738
RestartFire ==
    /\ Running
    /\ restartTimeout
    /\ status' = setStatus(status, "restarting")
    /\ ui' = "unmounted"
    /\ processExit' = "restart"
    /\ UNCHANGED <<manual, alreadyBuilding, needRebuild, pendingChanges, buildContext,
                   hotInitialized, lastBuildFailed, restartTimeout, debouncedChanges,
                   debounceScheduled, debounceTimers, inflight, mainPc, subscription, exiting>>
    /\ History(Len(inflight), inflight, {}, {}, FALSE)

----------------------------------------------------------------------------
(* handleManualRebuild (watch.ts:523-529), called by WatchUI's useInput    *)
(* (WatchUI.tsx:258-262) on 'r' or Enter                                   *)

handleManualRebuild(w) ==
    IF w.pendingChanges # <<>> /\ ~w.alreadyBuilding
    THEN [onFilesChange(w, w.pendingChanges) EXCEPT !.pendingChanges = <<>>]
    ELSE w

ManualRebuild ==
    /\ Running
    /\ ui = "ready"
    /\ manual /\ status = "pending"
    /\ LET w == handleManualRebuild(Cur)
       IN  /\ Commit(w)
           /\ History(Len(inflight), w.inflight,
                      IF w = Cur THEN {} ELSE {pendingChanges}, {}, FALSE)
    /\ UNCHANGED <<manual, buildContext, hotInitialized, lastBuildFailed, restartTimeout,
                   debouncedChanges, debounceScheduled, debounceTimers, mainPc, subscription,
                   ui, exiting, processExit>>

----------------------------------------------------------------------------
(* onFilesChange after its first await (watch.ts:562-671)                  *)

\* Lines 562-632 ran without an exception and _buildCommand is called (line 638).
\* Under Bun, after a failed build, this needs clearedCount > 0 (line 611).
PrepareDone(i) ==
    /\ Running
    /\ i \in 1..Len(inflight)
    /\ inflight[i].phase = "prepare"
    /\ inflight' = [inflight EXCEPT ![i].phase = "build"]
    /\ hotInitialized' = TRUE
    /\ ui' = FlushEffects(ui)
    /\ UNCHANGED <<manual, alreadyBuilding, needRebuild, pendingChanges, buildContext,
                   lastBuildFailed, restartTimeout, debouncedChanges, debounceScheduled,
                   debounceTimers, mainPc, subscription, status, exiting, processExit>>
    /\ History(Len(inflight), inflight', {}, {}, FALSE)

\* Lines 588-616, when the runtime is Bun (Object.hasOwn(globalThis, 'Bun')): recovering
\* from a failed build, no project module was found in require.cache (clearedCount = 0):
\* process.exit(1).  This exit is the only place where the state of the watch loop
\* depends on the runtime, and it ends the process, so the runtime is not a variable:
\* a run with this step is a run under Bun, a run without it is a run of either runtime.
BunParseExit(i) ==
    /\ Running
    /\ i \in 1..Len(inflight)
    /\ inflight[i].phase = "prepare"
    /\ Len(inflight[i].changes) > 0
    /\ lastBuildFailed
    /\ hotInitialized' = TRUE
    /\ status' = setStatus(status, "error")
    /\ ui' = "unmounted"
    /\ processExit' = "parse_error"
    /\ UNCHANGED <<manual, alreadyBuilding, needRebuild, pendingChanges, buildContext,
                   lastBuildFailed, restartTimeout, debouncedChanges, debounceScheduled,
                   debounceTimers, inflight, mainPc, subscription, exiting>>
    /\ History(Len(inflight), inflight, {}, {}, FALSE)

\* A step of lines 562-632 throws (Bun.spawn, hot.init, fs.readFile/JSON.parse of
\* package.json, fs.realpath, hot.notifyFileChange, fs.readdir): onFilesChange rejects
\* with nothing after line 554 undone.  The call of line 781 is awaited, so watchCommand
\* rejects too; the calls of lines 526, 669 and 773 leave an unhandled rejection, which
\* the runtime either reports and survives or ends the process for.
PrepareFail(i) ==
    /\ Running
    /\ i \in 1..Len(inflight)
    /\ inflight[i].phase = "prepare"
    /\ ~hotInitialized \/ Len(inflight[i].changes) > 0
    /\ inflight' = RemoveAt(inflight, i)
    /\ hotInitialized' \in (IF hotInitialized THEN {TRUE} ELSE BOOLEAN)
    /\ ui' = FlushEffects(ui)
    /\ mainPc' = IF mainPc = "initialBuild" THEN "rejected" ELSE mainPc
    /\ processExit' \in {"no", "crash"}
    /\ UNCHANGED <<manual, alreadyBuilding, needRebuild, pendingChanges, buildContext,
                   lastBuildFailed, restartTimeout, debouncedChanges, debounceScheduled,
                   debounceTimers, subscription, status, exiting>>
    /\ History(Len(inflight) - 1, inflight', {}, {}, TRUE)

\* _buildCommand returned (it catches every error of the build, build.ts:563-599) and
\* onFilesChange runs lines 643-670 to its end or to the first await of the call of
\* line 669.
BuildComplete(i, success) ==
    /\ Running
    /\ i \in 1..Len(inflight)
    /\ inflight[i].phase = "build"
    /\ buildContext' = (success \/ buildContext)
    /\ lastBuildFailed' = ~success
    /\ LET reported == [Cur EXCEPT
                           !.inflight = RemoveAt(@, i),
                           !.status = IF inflight[i].api /\ ui = "ready"
                                      THEN setBuildResult(success) ELSE @]
           w == afterBuild(reported)
       IN  /\ Commit(w)
           /\ mainPc' = IF mainPc = "initialBuild" /\ Len(w.inflight) = 0
                        THEN "subscribing" ELSE mainPc
           /\ History(Len(inflight) - 1, w.inflight,
                      IF reported.needRebuild THEN {reported.pendingChanges} ELSE {},
                      {}, TRUE)
    /\ UNCHANGED <<manual, hotInitialized, restartTimeout, debouncedChanges,
                   debounceScheduled, debounceTimers, subscription, ui, exiting, processExit>>

----------------------------------------------------------------------------
(* watchCommand after the initial build (watch.ts:783-798) and exit        *)
(* (watch.ts:801-806)                                                      *)

Subscribe ==
    /\ Running
    /\ mainPc = "subscribing"
    /\ mainPc' = "watching"
    /\ subscription' = "active"
    /\ UNCHANGED <<manual, alreadyBuilding, needRebuild, pendingChanges, buildContext,
                   hotInitialized, lastBuildFailed, restartTimeout, debouncedChanges,
                   debounceScheduled, debounceTimers, inflight, ui, status, exiting,
                   processExit>>
    /\ History(Len(inflight), inflight, {}, {}, FALSE)

\* exit() up to `await subscription.unsubscribe()`: unmountInk() discards the WatchUI
\* component and its state.  Before line 783 has assigned
\* subscription the call throws a TypeError inside exit(), whose promise nobody awaits
\* (line 536).
exitBegin ==
    /\ ui' = "unmounted"
    /\ status' = "gone"
    /\ IF subscription = "none"
       THEN /\ processExit' \in {"no", "crash"}
            /\ UNCHANGED <<subscription, exiting>>
       ELSE /\ subscription' = "closing"
            /\ exiting' = TRUE
            /\ UNCHANGED processExit
    /\ UNCHANGED <<manual, alreadyBuilding, needRebuild, pendingChanges, buildContext,
                   hotInitialized, lastBuildFailed, restartTimeout, debouncedChanges,
                   debounceScheduled, debounceTimers, inflight, mainPc>>
    /\ History(Len(inflight), inflight, {}, {}, FALSE)

\* the q key (WatchUI.tsx:240-242)
Quit ==
    /\ Running
    /\ ui = "ready"
    /\ ~exiting
    /\ exitBegin

\* the SIGINT handler registered at line 798
SigInt ==
    /\ Running
    /\ mainPc = "watching"
    /\ ~exiting
    /\ exitBegin

\* exit() after unsubscribe resolved: process.exit(0)
ExitFinish ==
    /\ Running
    /\ exiting
    /\ subscription' = "closed"
    /\ processExit' = "exit"
    /\ UNCHANGED <<manual, alreadyBuilding, needRebuild, pendingChanges, buildContext,
                   hotInitialized, lastBuildFailed, restartTimeout, debouncedChanges,
                   debounceScheduled, debounceTimers, inflight, mainPc, ui, status, exiting>>
    /\ History(Len(inflight), inflight, {}, {}, FALSE)

----------------------------------------------------------------------------

Next ==
    \/ \E events \in EventBatches : HandleEvents(events)
    \/ DebounceFire
    \/ RestartFire
    \/ ManualRebuild
    \/ \E i \in 1..Len(inflight) : PrepareDone(i)
    \/ \E i \in 1..Len(inflight) : BunParseExit(i)
    \/ \E i \in 1..Len(inflight) : PrepareFail(i)
    \/ \E i \in 1..Len(inflight), success \in BOOLEAN : BuildComplete(i, success)
    \/ Subscribe
    \/ Quit
    \/ SigInt
    \/ ExitFinish

Spec == Init /\ [][Next]_vars

TypeOK ==
    /\ manual \in BOOLEAN
    /\ alreadyBuilding \in BOOLEAN /\ needRebuild \in BOOLEAN
    /\ ui \in {"rendered", "ready", "unmounted"}
    /\ status \in {"watching", "building", "restarting", "error", "pending", "gone"}
    /\ processExit \in {"no", "exit", "restart", "parse_error", "crash"}

\* Fairness of the event loop: a timer that is due runs, and a call suspended at an
\* await goes on when the awaited work is done (every build terminates).
FairSpec ==
    /\ Spec
    /\ WF_vars(DebounceFire)
    /\ WF_vars(\E i \in 1..Len(inflight) : PrepareDone(i))
    /\ WF_vars(\E i \in 1..Len(inflight), success \in BOOLEAN : BuildComplete(i, success))

----------------------------------------------------------------------------
(* Properties of the watch loop                                            *)

\* _buildCommand is running in the oldest onFilesChange call
BuildRunning == Len(inflight) >= 1 /\ inflight[1].phase = "build"

\* the step in which the running call goes on after _buildCommand (lines 643-670)
CompletionStep == BuildRunning /\ inflight' # inflight

\* a step that starts an onFilesChange call past the guard
StartStep == /\ inflight' # <<>>
             /\ inflight'[Len(inflight')].phase = "prepare"
             /\ \/ inflight = <<>>
                \/ Len(inflight') > Len(inflight)
                \/ inflight[1].phase = "build"

\* the changes a build can be asked for: tracked, and no reason for a restart
BuildablePaths ==
    {q \in {normalizePath(f) : f \in RawPaths} : IsTracked(q) /\ ~RequiresRestart(q)}

\* C1: at every moment at most one onFilesChange call is past the guard, so at most one
\* _buildCommand call is in progress, and the guard is set while it is.
C1_SingleFlight ==
    /\ Len(inflight) <= 1
    /\ Len(inflight) = 1 => alreadyBuilding

\* a build runs, a change-set was queued behind it and a debounce timer is outstanding
C1_Witness ==
    /\ BuildRunning
    /\ needRebuild
    /\ debounceTimers = 1

\* C2: when two or more change-sets reached onFilesChange during a build, the step that
\* completes the build starts exactly one call, whose change-set is the union by path of
\* what arrived, without duplicates, and nothing stays queued.
C2_OneQueuedRebuild ==
    [][(CompletionStep /\ arrivals >= 2) =>
          /\ Len(inflight') = 1
          /\ inflight'[1].phase = "prepare"
          /\ PathsOf(inflight'[1].changes) = arrived
          /\ Len(inflight'[1].changes) = Cardinality(arrived)
          /\ ~needRebuild'
          /\ pendingChanges' = <<>>
          /\ alreadyBuilding']_vars

\* two change-sets with different paths arrived during the running build
C2_Witness ==
    /\ BuildRunning
    /\ arrivals = 2
    /\ Cardinality(arrived) = 2

\* C3 (as claimed): in auto mode every tracked, non-restart path delivered to
\* handleEvents is eventually in the change-set of a call started after it arrived,
\* unless the process ends, is about to restart or is exiting.
C3_NoChangeDropped ==
    \A q \in BuildablePaths :
        (~manual /\ q \in unbuilt) ~>
            (q \notin unbuilt \/ processExit # "no" \/ restartTimeout \/ exiting)

\* C4: the change-set of a call never changes while the call is in flight, and what
\* arrives meanwhile is in the pending list, for the next call.
C4_ChangeSetFixed ==
    /\ [](Len(inflight) >= 1 => arrived \subseteq PathsOf(pendingChanges))
    /\ [][(Len(inflight) >= 1 /\ Len(inflight') >= 1 /\ ~CompletionStep)
             => inflight'[1].changes = inflight[1].changes]_vars

\* a path arrived during the running build that is not in that build's change-set
C4_Witness ==
    /\ BuildRunning
    /\ arrivals >= 1
    /\ arrived \ PathsOf(inflight[1].changes) # {}

\* C5: at most one debounce timer is outstanding, it is outstanding exactly while the
\* accumulator is non-empty, the accumulator has no path twice and only grows until the
\* timer fires; the firing empties it and hands all of it to one onFilesChange call
\* (auto mode: started, or merged into the queue) or to the pending list (manual mode).
C5_Debounce ==
    /\ [](/\ debounceTimers <= 1
          /\ debounceScheduled <=> (debounceTimers = 1)
          /\ (debounceTimers = 1) <=> (debouncedChanges # <<>>)
          /\ Len(debouncedChanges) = Cardinality(PathsOf(debouncedChanges)))
    /\ [][IF debounceTimers' < debounceTimers
          THEN /\ debouncedChanges' = <<>>
               /\ IF manual
                  THEN /\ pendingChanges' = pendingChanges \o debouncedChanges
                       /\ inflight' = inflight
                  ELSE IF alreadyBuilding
                  THEN /\ needRebuild'
                       /\ PathsOf(debouncedChanges) \subseteq PathsOf(pendingChanges')
                       /\ inflight' = inflight
                  ELSE /\ Len(inflight') = 1
                       /\ inflight'[1].changes = debouncedChanges
                       /\ pendingChanges' = pendingChanges
          ELSE PathsOf(debouncedChanges) \subseteq PathsOf(debouncedChanges')]_vars

\* two batches were merged into the accumulator behind one timer
C5_Witness ==
    /\ debounceTimers = 1
    /\ Len(debouncedChanges) = 2

\* C6 (as claimed): a batch with package.json, a lockfile or sandstone.config.ts arms the
\* restart timer and leaves the debounce accumulator and its timer alone.
C6_RestartOnDependencyChange ==
    [][\A b \in EventBatches :
          (HandleEvents(b) /\ Range(b) \cap {Manifest, YarnLock, NpmLock, PnpmLock,
                                             ConfigFile} # {})
          => /\ restartTimeout'
             /\ debouncedChanges' = debouncedChanges
             /\ debounceTimers' = debounceTimers]_vars

\* C7 (as claimed): while _buildCommand runs, the restart timer does not end the process,
\* and the call is only replaced by a next one in the step in which it goes on after
\* _buildCommand: not by a timer, not by the manual trigger.
C7_RunsToCompletion ==
    [][BuildRunning =>
          /\ processExit' # "restart"
          /\ inflight' # inflight =>
                /\ debounceTimers' = debounceTimers
                /\ inflight' = <<>> \/ needRebuild]_vars

\* C8 (as claimed; a crash of the runtime is left aside): the process ends only by
\* quit or interrupt and by the restart timer.
C8_NeverExitsOnBuildError == processExit \in {"no", "exit", "restart", "crash"}

\* C8 (amended): the step in which a failed build ends does not end the process and
\* releases the guard unless it starts the queued rebuild; the process ends by quit or
\* interrupt, by the restart timer, and besides: with exit code 1 when a build started by
\* a change after a failed build finds no cached module to clear (Bun), and by a
\* rejection nobody handles (a step before _buildCommand throws, or quit before the
\* subscription exists).
C8_ExitReasons ==
    /\ [][(CompletionStep /\ lastBuildFailed') =>
             /\ processExit' = "no"
             /\ alreadyBuilding' <=> (inflight' # <<>>)
             /\ subscription' = subscription]_vars
    /\ [][(processExit = "no" /\ processExit' # "no") =>
             \/ processExit' = "exit" /\ exiting
             \/ processExit' = "restart" /\ restartTimeout
             \/ /\ processExit' = "parse_error"
                /\ lastBuildFailed
                /\ \E i \in 1..Len(inflight) :
                      inflight[i].phase = "prepare" /\ inflight[i].changes # <<>>
             \/ /\ processExit' = "crash"
                /\ \/ \E i \in 1..Len(inflight) : inflight[i].phase = "prepare"
                   \/ subscription = "none"]_vars

\* after a failed build the process runs and a change has started the next build
C8_Witness ==
    /\ lastBuildFailed
    /\ processExit = "no"
    /\ BuildRunning
    /\ inflight[1].changes # <<>>

\* C9 (as claimed): a build that succeeds after a failed one, with nothing queued,
\* sets the status to watching.
C9_BackToWatching ==
    [][(/\ CompletionStep
        /\ lastBuildFailed /\ ~lastBuildFailed'
        /\ ~needRebuild
        /\ inflight[1].api /\ ui = "ready") => status' = "watching"]_vars

\* C9 (amended): the step that ends a build starts a call only for changes queued during
\* it, and from idle a call starts only by the debounce timer (auto mode) or the manual
\* trigger; a build that succeeds with nothing queued sets the status to watching in
\* auto mode and to pending in manual mode, a build that fails sets it to error.
C9_NoRetry ==
    /\ [][(CompletionStep /\ inflight' # <<>>) =>
             /\ needRebuild
             /\ pendingChanges # <<>>
             /\ inflight'[1].changes = pendingChanges]_vars
    /\ [][(inflight = <<>> /\ inflight' # <<>>) =>
             IF manual THEN status = "pending" /\ pendingChanges # <<>>
                            /\ debounceTimers' = debounceTimers
             ELSE debounceTimers' < debounceTimers]_vars
    /\ [][(CompletionStep /\ ~needRebuild /\ inflight[1].api /\ ui = "ready") =>
             status' = IF lastBuildFailed' THEN "error"
                       ELSE IF manual THEN "pending" ELSE "watching"]_vars

\* a build failed, nothing was queued: the loop is idle with status error
C9_Witness ==
    /\ lastBuildFailed
    /\ inflight = <<>>
    /\ ~alreadyBuilding
    /\ ~needRebuild
    /\ status = "error"
    /\ subscription = "active"

\* C10: in manual mode the debounce timer starts no call, it appends the accumulated
\* changes to the pending list (status pending); a call starts only by the trigger of the
\* UI, with status pending, a non-empty pending list and no build in flight; it gets the
\* pending list, which becomes empty; nothing is ever queued behind a build.
C10_ManualMode ==
    /\ [](manual => ~needRebuild)
    /\ [][manual =>
             /\ debounceTimers' < debounceTimers =>
                   /\ inflight' = inflight
                   /\ pendingChanges' = pendingChanges \o debouncedChanges
                   /\ ui = "ready" => status' = "pending"
             /\ StartStep =>
                   /\ inflight = <<>>
                   /\ ~alreadyBuilding
                   /\ ui = "ready" /\ status = "pending"
                   /\ pendingChanges # <<>>
                   /\ UNCHANGED <<debounceTimers, debouncedChanges>>
                   /\ Len(inflight') = 1
                   /\ inflight'[1].changes = pendingChanges
                   /\ pendingChanges' = <<>>]_vars

\* manual mode: the trigger has started a build with the pending changes
C10_Witness ==
    /\ manual
    /\ BuildRunning
    /\ inflight[1].changes # <<>>
    /\ pendingChanges = <<>>
    /\ status = "building"

\* C29 (as claimed): the step that ends a build, with the UI registered and nothing
\* queued behind the build, takes the status from building to watching when the build
\* succeeded and to error when it failed, in auto and in manual mode.
C29_WatchingInBothModes ==
    [][(/\ CompletionStep
        /\ status = "building"
        /\ inflight[1].api /\ ui = "ready"
        /\ ~needRebuild) =>
          status' = IF lastBuildFailed' THEN "error" ELSE "watching"]_vars

\* C29 (amended): the step that ends a build, in a call that got the API of the UI,
\* sets the status to error when the build failed and, when it succeeded, to watching
\* in auto mode and to pending in manual mode; when a change-set was queued behind the
\* build the same step starts the next build and the status is building again.  A call
\* that started before the UI registered its API leaves the status alone.
C29_StatusAfterBuild ==
    [][CompletionStep =>
         status' = IF needRebuild /\ ui = "ready" THEN "building"
                   ELSE IF ~(inflight[1].api /\ ui = "ready") THEN status
                   ELSE IF lastBuildFailed' THEN "error"
                   ELSE IF manual THEN "pending" ELSE "watching"]_vars

\* manual mode: a build succeeded, a later one has failed and left the status error
C29_Witness ==
    /\ manual
    /\ ui = "ready"
    /\ buildContext
    /\ lastBuildFailed
    /\ inflight = <<>>
    /\ pendingChanges = <<>>
    /\ status = "error"

\* C36 (as claimed): the guard is released by every call that set it, also when a step
\* before the build or the build itself fails: while the process runs and no
\* onFilesChange call is in flight, alreadyBuilding is false.
C36_GuardReleased ==
    (processExit = "no" /\ inflight = <<>>) => ~alreadyBuilding

\* C38: in auto mode, whenever the guard is released at a point where another callback
\* can run, nothing is queued: needRebuild is false and the pending list is empty.
C38_NothingQueuedWhenIdle ==
    (~manual /\ ~alreadyBuilding) => (~needRebuild /\ pendingChanges = <<>>)

\* auto mode: builds have run, the last one failed, and the loop is idle with the
\* subscription active
C38_Witness ==
    /\ ~manual
    /\ ~alreadyBuilding
    /\ inflight = <<>>
    /\ processExit = "no"
    /\ subscription = "active"
    /\ buildContext
    /\ lastBuildFailed
    /\ debounceTimers = 0

\* C39 (as claimed): in auto and in manual mode, the pending list never holds two
\* entries with the same path, nor does the change-set of a call past the guard.
C39_NoDuplicatePath ==
    /\ Cardinality(PathsOf(pendingChanges)) = Len(pendingChanges)
    /\ \A i \in 1..Len(inflight) :
          Cardinality(PathsOf(inflight[i].changes)) = Len(inflight[i].changes)

\* C11 (as claimed): when the process has ended by quit, interrupt or restart, no
\* subscription is left active: each was unsubscribed before process.exit.
C11_UnsubscribedBeforeExit ==
    processExit \in {"exit", "restart"} => subscription \in {"none", "closed"}

----------------------------------------------------------------------------
(* Part 2: _buildProject and _buildCommand (commands/build.ts:221-599),    *)
(* the content cache and the output folder.  Default save options: no      *)
(* exclusion, no content handler, no custom file handler; one pack type;   *)
(* not a production build.                                                 *)

\* relative paths and file contents, as strings (sequences of characters)
RelativePaths == {<<"a">>, <<"b">>}
Contents == {<<"x">>, <<"y">>}
OutputFiles == [path : RelativePaths, content : Contents]

\* the files of one source (the pack, or the resources folder), each path once, in the
\* order of the source: here the order of the paths
PathOrder == <<<<"a">>, <<"b">>>>
FileLists ==
    {fl \in SeqsOver(OutputFiles, Min(MaxFiles, Len(PathOrder))) :
        \A i, j \in 1..Len(fl) :
            i < j => \E m, n \in 1..Len(PathOrder) :
                        m < n /\ fl[i].path = PathOrder[m] /\ fl[j].path = PathOrder[n]}

\* what a build produces: the files sandstonePack.save hands to the file handler, then
\* the files handleResources finds in the resources folder
NoPlan == [generated |-> <<>>, resources |-> <<>>]
Plans == {pl \in [generated : FileLists, resources : FileLists] :
             Len(pl.generated) + Len(pl.resources) <= MaxFiles}

\* hash (build.ts:80-82): md5, taken to be free of collisions
hash(stringToHash) == <<"md5">> \o stringToHash

\* obj[key] = value
Put(m, k, v) == [x \in DOMAIN m \cup {k} |-> IF x = k THEN v ELSE m[x]]

\* obj[key], <<>> for undefined
Lookup(m, k) == IF k \in DOMAIN m THEN m[k] ELSE <<>>

\* the files of a folder after fs.rm of every path of S (absent paths are no error)
Without(m, S) == [x \in DOMAIN m \ S |-> m[x]]

\* Faulty variants of oldFileNames: nothing is stale; everything cached before is stale.
oldFileNames_None(old, new) == {}

oldFileNames_All(old, new) == DOMAIN old

\* build.ts:530-531: the keys of cache that are not keys of newCache
oldFileNames(old, new) == DOMAIN old \ DOMAIN new

\* Faulty variant of locationConflict: no check.
locationConflict_Never(world, rootOption) == FALSE

\* build.ts:267: worldName && root
locationConflict(world, rootOption) == world # "undefined" /\ rootOption = "true"

\* the history of a build is dropped when the build is over
Forget ==
    /\ imported' = {}
    /\ written' = {}
    /\ deleted' = {}
    /\ otherWrites' = {}
    /\ atStart' = NoEntries
    /\ newCache' = NoEntries
    /\ saved' = 0
    /\ copied' = 0
    /\ dry' = FALSE

\* _buildProject threw; _buildCommand catches it and returns success: false
\* (build.ts:581-598)
BuildFails ==
    /\ result' = "failure"
    /\ bpc' = "idle"
    /\ plan' = NoPlan
    /\ repeat' = "no"
    /\ Forget

BuildInit ==
    /\ WatchAtRest
    /\ CountAtRest
    /\ GraphAtRest
    /\ ProjectAtRest
    /\ cache = [defined |-> FALSE, entries |-> NoEntries]
    /\ cacheFile \in {[state |-> st, entries |-> NoEntries] :
                        st \in {"missing", "empty", "corrupt"}}
    /\ output = NoEntries
    /\ newCache = NoEntries
    /\ dry = FALSE
    /\ plan = NoPlan
    /\ saved = 0
    /\ copied = 0
    /\ bpc = "idle"
    /\ worldName = "undefined"
    /\ root = "undefined"
    /\ result = "none"
    /\ context = FALSE
    /\ imported = {}
    /\ written = {}
    /\ deleted = {}
    /\ otherWrites = {}
    /\ atStart = NoEntries
    /\ repeat = "no"

\* _buildCommand is called (build.ts:563-572)
StartBuild(d) ==
    /\ bpc = "idle"
    /\ bpc' = "loadOptions"
    /\ dry' = d
    /\ atStart' = [cache |-> cache, cacheFile |-> cacheFile, output |-> output]
    /\ worldName' = "undefined"
    /\ root' = "undefined"
    /\ UNCHANGED <<cache, cacheFile, output, newCache, plan, saved, copied, result, context,
                   imported, written, deleted, otherWrites, repeat>>
    /\ UNCHANGED <<watchVars, countVars, graphVars, projectVars>>

\* build.ts:228-264: package.json, the build context (loadBuildContext imports
\* sandstone.config.ts unless the watch loop passed a context), the location options;
\* getClientWorldPath throws when the world folder does not exist
LoadOptions(cliWorld, cfgWorld, cliRoot, cfgRoot, worldExists) ==
    /\ bpc = "loadOptions"
    /\ IF (cliWorld # "undefined" \/ cfgWorld # "undefined") /\ ~worldExists
       THEN BuildFails /\ UNCHANGED <<worldName, root>>
       ELSE /\ bpc' = "checkLocation"
            /\ worldName' = IF cliWorld # "undefined" THEN cliWorld ELSE cfgWorld
            /\ root' = IF cliRoot # "undefined" THEN cliRoot ELSE cfgRoot
            /\ imported' = IF context THEN imported ELSE imported \cup {"config"}
            /\ UNCHANGED <<newCache, dry, plan, saved, copied, result, written, deleted,
                           otherWrites, atStart, repeat>>
    /\ UNCHANGED <<cache, cacheFile, output, context>>
    /\ UNCHANGED <<watchVars, countVars, graphVars, projectVars>>

\* build.ts:267-269.  The rest of the build does not look at worldName and root in this
\* model: they are kept up to this check when it passes.
CheckLocation ==
    /\ bpc = "checkLocation"
    /\ IF locationConflict(worldName, root)
       THEN BuildFails /\ UNCHANGED <<worldName, root>>
       ELSE /\ bpc' = "import"
            /\ worldName' = "undefined"
            /\ root' = "undefined"
            /\ UNCHANGED <<newCache, dry, plan, saved, copied, result, imported, written,
                           deleted, otherWrites, atStart, repeat>>
    /\ UNCHANGED <<cache, cacheFile, output, context>>
    /\ UNCHANGED <<watchVars, countVars, graphVars, projectVars>>

\* build.ts:272-303: the beforeAll script and the import of the entrypoint, which runs
\* the user's modules: they throw, or they fill the pack (pl: what this build produces)
ImportEntry(ok, pl) ==
    /\ bpc = "import"
    /\ IF ok
       THEN /\ bpc' = "setupCache"
            /\ imported' = imported \cup {"entrypoint"}
            /\ plan' = pl
            /\ repeat' = IF repeat = "next" /\ ~dry /\ pl = plan THEN "yes" ELSE "no"
            /\ UNCHANGED <<newCache, dry, saved, copied, result, written, deleted,
                           otherWrites, atStart>>
       ELSE BuildFails
    /\ UNCHANGED <<cache, cacheFile, output, worldName, root, context>>
    /\ UNCHANGED <<watchVars, countVars, graphVars, projectVars>>

\* build.ts:305-318
SetupCache ==
    /\ bpc = "setupCache"
    /\ bpc' = "save"
    /\ newCache' = NoEntries
    /\ cache' = IF cache.defined THEN cache
                ELSE IF cacheFile.state = "json"
                THEN [defined |-> TRUE, entries |-> cacheFile.entries]
                ELSE IF cacheFile.state = "empty"
                THEN cache            \* readFile gave '': nothing is assigned
                ELSE [defined |-> TRUE, entries |-> NoEntries]   \* catch
    /\ UNCHANGED <<cacheFile, output, dry, plan, saved, copied, worldName, root, result,
                   context, imported, written, deleted, otherWrites, atStart, repeat>>
    /\ UNCHANGED <<watchVars, countVars, graphVars, projectVars>>

\* the file handler (build.ts:342-373), called by sandstonePack.save for the next
\* generated file; save does not call it in a dry run
SaveFile ==
    /\ bpc = "save"
    /\ ~dry
    /\ saved < Len(plan.generated)
    /\ LET file == plan.generated[saved + 1]
           hashValue == hash(file.content \o file.path)
       IN  IF ~cache.defined
           THEN \* cache[relativePath] throws a TypeError, save rejects
                BuildFails /\ UNCHANGED output
           ELSE /\ saved' = saved + 1
                /\ newCache' = Put(newCache, file.path, hashValue)
                /\ IF Lookup(cache.entries, file.path) = hashValue
                   THEN UNCHANGED <<output, written>>
                   ELSE /\ output' = Put(output, file.path, file.content)
                        /\ written' = written \cup {file.path}
                /\ UNCHANGED <<dry, plan, copied, bpc, result, imported, deleted,
                               otherWrites, atStart, repeat>>
    /\ UNCHANGED <<cache, cacheFile, worldName, root, context>>
    /\ UNCHANGED <<watchVars, countVars, graphVars, projectVars>>

\* sandstonePack.save returned (build.ts:374) and the export loop starts (452-468)
SaveDone ==
    /\ bpc = "save"
    /\ dry \/ saved = Len(plan.generated)
    /\ bpc' = "resources"
    /\ UNCHANGED <<cache, cacheFile, output, newCache, dry, plan, saved, copied, worldName,
                   root, result, context, imported, written, deleted, otherWrites, atStart,
                   repeat>>
    /\ UNCHANGED <<watchVars, countVars, graphVars, projectVars>>

\* handleResources (build.ts:377-431) on the next file of the resources folder; it does
\* not look at cliOptions.dry, and its try/catch swallows the TypeError of cache[...]
CopyResource ==
    /\ bpc = "resources"
    /\ copied < Len(plan.resources)
    /\ LET file == plan.resources[copied + 1]
           hashValue == hash(file.content \o file.path)
       IN  /\ copied' = copied + 1
           /\ newCache' = Put(newCache, file.path, hashValue)
           /\ IF ~cache.defined \/ Lookup(cache.entries, file.path) = hashValue
              THEN UNCHANGED <<output, written>>
              ELSE /\ output' = Put(output, file.path, file.content)
                   /\ written' = written \cup {file.path}
    /\ UNCHANGED <<cache, cacheFile, dry, plan, saved, bpc, worldName, root, result,
                   context, imported, deleted, otherWrites, atStart, repeat>>
    /\ UNCHANGED <<watchVars, countVars, graphVars, projectVars>>

\* build.ts:470-498: the export to the client, when a client path is known
\* (fs.remove, fs.copy); it does not look at cliOptions.dry.  ok: the file system
\* carries out the removal and the copy; when it refuses one, _buildProject throws
Export(clientPath, ok) ==
    /\ bpc = "resources"
    /\ copied = Len(plan.resources)
    /\ IF clientPath /\ ~ok
       THEN BuildFails
       ELSE /\ bpc' = "cleanup"
            /\ otherWrites' = otherWrites \cup (IF clientPath THEN {"client"} ELSE {})
            /\ UNCHANGED <<newCache, dry, plan, saved, copied, result, imported, written,
                           deleted, atStart, repeat>>
    /\ UNCHANGED <<cache, cacheFile, output, worldName, root, context>>
    /\ UNCHANGED <<watchVars, countVars, graphVars, projectVars>>

\* build.ts:528-543
Cleanup ==
    /\ bpc = "cleanup"
    /\ IF dry
       THEN /\ bpc' = "afterAll"
            /\ UNCHANGED <<cache, cacheFile, output, deleted, result, newCache, dry, plan,
                           saved, copied, imported, written, otherWrites, atStart, repeat>>
       ELSE IF ~cache.defined
       THEN \* Object.keys(undefined) throws a TypeError
            BuildFails /\ UNCHANGED <<cache, cacheFile, output>>
       ELSE /\ deleted' = oldFileNames(cache.entries, newCache)
            /\ output' = Without(output, deleted')
            /\ cache' = [defined |-> TRUE, entries |-> newCache]
            /\ cacheFile' = [state |-> "json", entries |-> newCache]
            /\ bpc' = "afterAll"
            /\ UNCHANGED <<result, newCache, dry, plan, saved, copied, imported, written,
                           otherWrites, atStart, repeat>>
    /\ UNCHANGED <<worldName, root, context>>
    /\ UNCHANGED <<watchVars, countVars, graphVars, projectVars>>

\* build.ts:545-560 and 573-580: the afterAll script, countResources, success: true;
\* in watch mode the context is kept for the next build (watch.ts:643-650).
\* ok: the afterAll script of the configuration returns; when it throws, so does
\* _buildProject
Finish(ok) ==
    /\ bpc = "afterAll"
    /\ IF ok
       THEN /\ bpc' = "idle"
            /\ result' = "success"
            /\ context' = TRUE
            /\ repeat' = IF dry THEN "no" ELSE "next"
            /\ plan' = IF dry THEN NoPlan ELSE plan
            /\ Forget
       ELSE BuildFails /\ UNCHANGED context
    /\ UNCHANGED <<cache, cacheFile, output, worldName, root>>
    /\ UNCHANGED <<watchVars, countVars, graphVars, projectVars>>

\* the process ends and the next build runs in a new one
NewProcess ==
    /\ bpc = "idle"
    /\ cache.defined \/ context
    /\ cache' = [defined |-> FALSE, entries |-> NoEntries]
    /\ context' = FALSE
    /\ UNCHANGED <<cacheFile, output, newCache, dry, plan, saved, copied, bpc, worldName,
                   root, result, imported, written, deleted, otherWrites, atStart, repeat>>
    /\ UNCHANGED <<watchVars, countVars, graphVars, projectVars>>

WorldOptions(name) == {"undefined", name}
RootOptions == {"undefined", "true", "false"}

BuildNext ==
    \/ \E d \in BOOLEAN : StartBuild(d)
    \/ \E cliWorld \in WorldOptions("cliWorld"), cfgWorld \in WorldOptions("cfgWorld"),
          cliRoot \in RootOptions, cfgRoot \in RootOptions, worldExists \in BOOLEAN :
            LoadOptions(cliWorld, cfgWorld, cliRoot, cfgRoot, worldExists)
    \/ CheckLocation
    \/ \E ok \in BOOLEAN, pl \in Plans : ImportEntry(ok, pl)
    \/ SetupCache
    \/ SaveFile
    \/ SaveDone
    \/ CopyResource
    \/ \E clientPath \in BOOLEAN, ok \in BOOLEAN : Export(clientPath, ok)
    \/ Cleanup
    \/ \E ok \in BOOLEAN : Finish(ok)
    \/ NewProcess

CacheSpec == BuildInit /\ [][BuildNext]_vars

BuildTypeOK ==
    /\ bpc \in {"idle", "loadOptions", "checkLocation", "import", "setupCache", "save",
                "resources", "cleanup", "afterAll"}
    /\ result \in {"none", "success", "failure"}
    /\ DOMAIN output \subseteq RelativePaths
    /\ DOMAIN cache.entries \subseteq RelativePaths
    /\ repeat \in {"no", "next", "yes"}
    /\ written \subseteq DOMAIN newCache

\* the previous cache generation of the running build: the in-memory cache of the
\* process, else what the cache file holds, else nothing
Previous ==
    IF atStart.cache.defined THEN atStart.cache.entries
    ELSE IF atStart.cacheFile.state = "json" THEN atStart.cacheFile.entries
    ELSE NoEntries

\* the file that the file handler, or handleResources, is given next
NextFile ==
    IF bpc = "save" THEN plan.generated[saved + 1] ELSE plan.resources[copied + 1]

\* C12 (as claimed): each time a path and a content are handed to the file handler (or
\* found by handleResources), the hash of content + path is recorded in the new
\* generation, and the file is written if and only if this hash is not the previous
\* generation's entry for the path.
C12_HashRecordedWrittenIffChanged ==
    [][(SaveFile \/ CopyResource) =>
        LET hashValue == hash(NextFile.content \o NextFile.path)
        IN  /\ Lookup(newCache', NextFile.path) = hashValue
            /\ IF Lookup(Previous, NextFile.path) # hashValue
               THEN /\ NextFile.path \in written'
                    /\ Lookup(output', NextFile.path) = NextFile.content
               ELSE /\ written' = written
                    /\ output' = output]_vars

C14_SecondBuildWritesNothing ==
    (bpc = "afterAll" /\ repeat = "yes") =>
        /\ written = {}
        /\ deleted = {}
        /\ cache.entries = Previous
        /\ output = atStart.output

\* C15 (as claimed): when the cache file is missing, unparseable or of length zero, the
\* build goes on with an empty previous generation.
C15_UnreadableCacheIsEmpty ==
    (/\ bpc \in {"save", "resources", "cleanup"}
     /\ ~atStart.cache.defined
     /\ atStart.cacheFile.state # "json") =>
        cache = [defined |-> TRUE, entries |-> NoEntries]

\* C16: the paths deleted by a build and the paths it wrote or recorded in the new
\* generation are disjoint, and the recorded paths are in the output folder after the
\* deletion.
C16_DeletesOnlyStale ==
    /\ deleted \cap (written \cup DOMAIN newCache) = {}
    /\ (bpc = "afterAll" /\ ~dry) => written \subseteq DOMAIN output

\* a build deleted a path and wrote another
C16_Witness ==
    /\ bpc = "afterAll"
    /\ deleted # {}
    /\ written # {}
    /\ written \subseteq DOMAIN output

\* C17 (as claimed): a dry run writes and deletes nothing in the output folder, exports
\* nothing, and leaves the in-memory cache and the cache file as they were.
C17_DryRunTouchesNothing ==
    dry =>
        /\ output = atStart.output
        /\ otherWrites = {}
        /\ cacheFile = atStart.cacheFile
        /\ atStart.cache.defined => cache = atStart.cache

Generation(memory, file) ==
    IF memory.defined THEN memory.entries
    ELSE IF file.state = "json" THEN file.entries
    ELSE NoEntries

\* C35 (as claimed): a build that fails leaves the content cache as it was: the cache
\* file is the same, the generation that the next build will take as the previous one
\* is the same, and no file of that generation is removed from the output folder.
C35_FailedBuildKeepsCache ==
    [][(bpc # "idle" /\ bpc' = "idle" /\ result' = "failure") =>
          /\ cacheFile' = atStart.cacheFile
          /\ Generation(cache', cacheFile') = Previous
          /\ DOMAIN Previous \cap DOMAIN atStart.output \subseteq DOMAIN output']_vars

\* C37 (as claimed): at the end of a successful build that is not a dry run, every
\* path of the cache has a file in the output folder, and the hash of that file's
\* content and path is the cached value, whatever builds ran before.
C37_CacheAgreesWithOutput ==
    (bpc = "afterAll" /\ ~dry) =>
        \A p \in DOMAIN cache.entries :
            /\ p \in DOMAIN output
            /\ hash(output[p] \o p) = cache.entries[p]

\* C32 (as claimed): when exactly one location flag is given on the command line (a
\* world, or root), the location options of the build are that flag's, whatever the
\* saveOptions of the configuration set, and the check of line 267 finds no conflict.
C32_FlagOverridesConfig ==
    [][\A cliWorld \in WorldOptions("cliWorld"), cfgWorld \in WorldOptions("cfgWorld"),
          cliRoot \in RootOptions, cfgRoot \in RootOptions, worldExists \in BOOLEAN :
            (/\ LoadOptions(cliWorld, cfgWorld, cliRoot, cfgRoot, worldExists)
             /\ bpc' = "checkLocation"
             /\ (cliWorld # "undefined") # (cliRoot = "true")) =>
                /\ ~locationConflict(worldName', root')
                /\ cliRoot = "true" => worldName' = "undefined" /\ root' = "true"
                /\ cliWorld # "undefined" => worldName' = cliWorld /\ root' # "true"]_vars

----------------------------------------------------------------------------
(* countResources (commands/build.ts:128-169)                               *)

MaxNodes == 2

Namespaces == {"load", "__sandstone__", "minecraft", "mypack"}
LastPathParts == {"__init__", "load", "main"}
Constructors == {"_RawMCFunctionClass", "TagClass"}

\* a resource: its namespace, the last part of its path, the name of its constructor
Resources == [namespace : Namespaces, name : LastPathParts, constructor : Constructors]

\* build.ts:133-148
isBoilerplateResource(resource) ==
    \/ resource.namespace \in {"load", "__sandstone__"}
    \/ resource.name \in {"__init__"}
    \/ resource.namespace = "minecraft" /\ resource.name = "load"

\* build.ts:150-169, the loop from the node at index i on
RECURSIVE countFrom(_, _, _, _)
countFrom(resources, i, functions, other) ==
    IF i > Len(resources)
    THEN [returned |-> TRUE, functions |-> functions, other |-> other]
    ELSE IF isBoilerplateResource(resources[i])
    THEN countFrom(resources, i + 1, functions, other)
    ELSE IF resources[i].constructor = "_RawMCFunctionClass"
    THEN countFrom(resources, i + 1, functions + 1, other)
    ELSE countFrom(resources, i + 1, functions, other + 1)

countResources(resources) == countFrom(resources, 1, 0, 0)

CountInit ==
    /\ WatchAtRest
    /\ BuildAtRest
    /\ GraphAtRest
    /\ ProjectAtRest
    /\ resourceNodes \in SeqsOver(Resources, MaxNodes)
    /\ counts = NoCounts

\* build.ts:549: the counts of the pack of a successful build
CountResources ==
    /\ counts = NoCounts
    /\ counts' = countResources(resourceNodes)
    /\ UNCHANGED <<resourceNodes, watchVars, buildVars, graphVars, projectVars>>

CountNext == CountResources

CountSpec == CountInit /\ [][CountNext]_vars

\* the boilerplate of the claim: the namespaces load and __sandstone__, the name
\* __init__, the tag minecraft:load
BootstrapResource(resource) ==
    \/ resource.namespace \in {"load", "__sandstone__"}
    \/ resource.name = "__init__"
    \/ /\ resource.constructor = "TagClass"
       /\ resource.namespace = "minecraft"
       /\ resource.name = "load"

\* C19 (as claimed): functions + other is the number of nodes that are not boilerplate;
\* functions is the number of those that are functions, other the number of the rest.
C19_CountsPartition ==
    counts.returned =>
        LET user == {i \in 1..Len(resourceNodes) : ~BootstrapResource(resourceNodes[i])}
            fns == {i \in user : resourceNodes[i].constructor = "_RawMCFunctionClass"}
        IN  /\ counts.functions = Cardinality(fns)
            /\ counts.other = Cardinality(user \ fns)

----------------------------------------------------------------------------
(* DependencyGraph (build/graph.ts:34-149)                                  *)
(* A node is known by its name; a Set of nodes is the set of their names.   *)

\* the modules, in the order in which madge lists them (sorted)
ModuleOrder == <<"a", "b", "c">>
ModuleNames == Range(ModuleOrder)

\* what madge returns: for each module it walked, the modules it depends on, which
\* madge walked too
MadgeGraphs ==
    UNION {{m \in [keys -> SUBSET keys] : \A name \in keys : name \notin m[name]} :
              keys \in SUBSET ModuleNames}

\* graph.ts:37-56: the constructor
Construct(madgeGraph) ==
    [name \in DOMAIN madgeGraph |->
        [dependencies |-> madgeGraph[name],
         dependsOn |-> {other \in DOMAIN madgeGraph : name \in madgeGraph[other]}]]

\* the elements of a Set in the order of their insertion: here the order of madge
RECURSIVE InOrderFrom(_, _)
InOrderFrom(names, i) ==
    IF i > Len(ModuleOrder) THEN <<>>
    ELSE (IF ModuleOrder[i] \in names THEN <<ModuleOrder[i]>> ELSE <<>>)
             \o InOrderFrom(names, i + 1)

InOrder(names) == InOrderFrom(names, 1)

\* the elements added to a Set by a loop of the form
\*     for (x of xs) set.add(this.getNode(x.name))
\* up to the end of xs, or to the first x that getNode does not find (it throws)
RECURSIVE AddedUntilThrow(_, _)
AddedUntilThrow(xs, known) ==
    IF xs = <<>> \/ Head(xs) \notin known THEN {}
    ELSE {Head(xs)} \cup AddedUntilThrow(Tail(xs), known)

\* graph.ts:84-103: what the first loop of merge does to the node `name` of this graph,
\* which the other graph has too
MergedNode(node, newNode, known) ==
    IF ~(newNode.dependencies \subseteq known)
    THEN \* getNode throws at line 91: dependsOn is not reached
         [dependencies |-> AddedUntilThrow(InOrder(newNode.dependencies), known),
          dependsOn |-> node.dependsOn]
    ELSE [dependencies |-> newNode.dependencies,
          dependsOn |-> AddedUntilThrow(InOrder(newNode.dependsOn), known)]

\* Faulty variant of MergeGraphs: the nodes that the other graph does not have lose
\* their edges to the nodes it has.
MergeGraphs_TouchOthers(this, graph) ==
    [name \in DOMAIN this \cup DOMAIN graph |->
        IF name \in DOMAIN graph THEN graph[name]
        ELSE [dependencies |-> this[name].dependencies \ DOMAIN graph,
              dependsOn |-> this[name].dependsOn \ DOMAIN graph]]

\* graph.ts:82-130: this graph after merge(graph)
MergeGraphs(this, graph) ==
    [name \in DOMAIN this \cup DOMAIN graph |->
        IF name \in DOMAIN this
        THEN IF name \in DOMAIN graph
             THEN MergedNode(this[name], graph[name], DOMAIN this)
             ELSE this[name]
        ELSE graph[name]]

\* graph.ts:137-149: this graph after delete(name), for a name it has
DeleteNode(this, name) ==
    [other \in DOMAIN this \ {name} |->
        [dependencies |-> IF other \in this[name].dependsOn
                          THEN this[other].dependencies \ {name}
                          ELSE this[other].dependencies,
         dependsOn |-> IF other \in this[name].dependencies
                       THEN this[other].dependsOn \ {name}
                       ELSE this[other].dependsOn]]

GraphInit ==
    /\ WatchAtRest
    /\ BuildAtRest
    /\ CountAtRest
    /\ ProjectAtRest
    /\ TraverseAtRest
    /\ \E madgeGraph \in MadgeGraphs :
          /\ nodes = Construct(madgeGraph)
          /\ lastCall = [method |-> "constructor", names |-> DOMAIN madgeGraph]

Merge(madgeGraph) ==
    /\ nodes' = MergeGraphs(nodes, Construct(madgeGraph))
    /\ lastCall' = [method |-> "merge", names |-> DOMAIN madgeGraph]
    /\ UNCHANGED <<watchVars, buildVars, countVars, traverseVars,
                   projectVars>>

Delete(name) ==
    /\ name \in DOMAIN nodes
    /\ nodes' = DeleteNode(nodes, name)
    /\ lastCall' = [method |-> "delete", names |-> {name}]
    /\ UNCHANGED <<watchVars, buildVars, countVars, traverseVars,
                   projectVars>>

GraphNext ==
    \/ \E madgeGraph \in MadgeGraphs : Merge(madgeGraph)
    \/ \E name \in ModuleNames : Delete(name)

GraphSpec == GraphInit /\ [][GraphNext]_vars

\* C20 (as claimed): for all nodes A and B of the graph, B is in A.dependencies if and
\* only if A is in B.dependsOn.
C20_EdgeSymmetry ==
    \A a, b \in DOMAIN nodes :
        b \in nodes[a].dependencies <=> a \in nodes[b].dependsOn

\* C21 (as claimed): merging a partial graph a second time changes nothing: a graph
\* that has just been merged with P is left as it is by a merge with P.
C21_MergeIdempotent ==
    [][\A madgeGraph \in MadgeGraphs :
          Merge(madgeGraph) => MergeGraphs(nodes', Construct(madgeGraph)) = nodes']_vars

\* C22 (as claimed): after merge(P), every node that P has has, in this graph, the
\* dependencies and the dependents that it has in P.
C22_MergedNodesAsInPartial ==
    [][\A madgeGraph \in MadgeGraphs :
          Merge(madgeGraph) =>
              \A name \in DOMAIN madgeGraph :
                  nodes'[name] = Construct(madgeGraph)[name]]_vars

\* C23: a merge leaves every node that this graph has and the partial graph has not
\* in the graph, with the dependencies and the dependents it had.
C23_MergeKeepsOtherNodes ==
    [][lastCall'.method = "merge" =>
          \A name \in DOMAIN nodes \ lastCall'.names :
              /\ name \in DOMAIN nodes'
              /\ nodes'[name] = nodes[name]]_vars

\* a graph of a, b and c has been merged with a partial graph that has a alone, and b
\* and c have edges
C23_Witness ==
    /\ lastCall = [method |-> "merge", names |-> {"a"}]
    /\ DOMAIN nodes = {"a", "b", "c"}
    /\ nodes["b"].dependencies = {"c"}
    /\ nodes["c"].dependsOn = {"b"}
    /\ nodes["b"].dependsOn = {"a"}

\* C30 (as claimed): no set of a node of the graph holds a node that the graph does not
\* have.
C30_NoDanglingEdge ==
    \A name \in DOMAIN nodes :
        nodes[name].dependencies \cup nodes[name].dependsOn \subseteq DOMAIN nodes

----------------------------------------------------------------------------
(* Node.getDependencies and Node.getDependsOn (build/graph.ts:191-241)       *)
(* One step per iteration of the loop over the node's set.                  *)

Methods == {"getDependencies", "getDependsOn"}

\* the Set that a method iterates: this.dependencies (201), this.dependsOn (227)
Edges(method, name) ==
    InOrder(IF method = "getDependencies" THEN nodes[name].dependencies
            ELSE nodes[name].dependsOn)

\* Faulty variant of inProgress: the flag is not looked at.
inProgress_Never(name, flags) == FALSE

\* graph.ts:198 and 224: if (this.traversed)
inProgress(name, flags) == name \in flags

\* Faulty variant of Frame: includeSelf is not looked at, the result starts empty.
Frame_NoSelf(method, name, recursive, includeSelf) ==
    [method |-> method, node |-> name,
     rest |-> IF recursive THEN Edges(method, name) ELSE <<>>,
     result |-> {}]

\* the frame of a call on the node `name`, past the test of the flag
Frame(method, name, recursive, includeSelf) ==
    [method |-> method, node |-> name,
     rest |-> IF recursive THEN Edges(method, name) ELSE <<>>,
     result |-> IF includeSelf THEN {name} ELSE {}]

TraverseInit ==
    /\ WatchAtRest
    /\ BuildAtRest
    /\ CountAtRest
    /\ ProjectAtRest
    /\ TraverseAtRest
    /\ \E madgeGraph \in MadgeGraphs :
          /\ nodes = Construct(madgeGraph)
          /\ lastCall = [method |-> "constructor", names |-> DOMAIN madgeGraph]

\* a caller calls node.getDependencies(opts) or node.getDependsOn(opts): lines 191-199
\* (217-225) up to this.traversed = true
Call(method, name, recursive, includeSelf) ==
    /\ stack = <<>>
    /\ name \in DOMAIN nodes
    /\ returned' = [done |-> FALSE,
                    call |-> [method |-> method, node |-> name, recursive |-> recursive,
                              includeSelf |-> includeSelf],
                    value |-> {}]
    /\ traversed' = traversed \cup {name}
    /\ stack' = <<Frame(method, name, recursive, includeSelf)>>
    /\ UNCHANGED <<nodes, lastCall, watchVars, buildVars, countVars,
                   projectVars>>

\* one iteration of the loop of lines 203-209 (229-235): the call on the next node of
\* the set, with recursive and includeSelf, which returns at once when the flag of
\* that node is set
Visit ==
    /\ stack # <<>>
    /\ LET top == stack[Len(stack)]
       IN  /\ top.rest # <<>>
           /\ LET child == Head(top.rest)
                  waiting == [stack EXCEPT ![Len(stack)].rest = Tail(top.rest)]
              IN  IF inProgress(child, traversed)
                  THEN /\ stack' = [waiting EXCEPT ![Len(stack)].result = @ \cup {child}]
                       /\ UNCHANGED traversed
                  ELSE /\ stack' = Append(waiting, Frame(top.method, child, TRUE, TRUE))
                       /\ traversed' = traversed \cup {child}
    /\ UNCHANGED <<returned, nodes, lastCall, watchVars, buildVars, countVars,
                   projectVars>>

\* lines 212-214 (238-240): the loop is over, the flag is reset, the result goes to
\* the caller, which adds its elements to its own result (205-207)
Return ==
    /\ stack # <<>>
    /\ LET top == stack[Len(stack)]
           callers == SubSeq(stack, 1, Len(stack) - 1)
       IN  /\ top.rest = <<>>
           /\ traversed' = traversed \ {top.node}
           /\ IF callers = <<>>
              THEN /\ stack' = <<>>
                   /\ returned' = [returned EXCEPT !.done = TRUE, !.value = top.result]
              ELSE /\ stack' = [callers EXCEPT ![Len(callers)].result = @ \cup top.result]
                   /\ UNCHANGED returned
    /\ UNCHANGED <<nodes, lastCall, watchVars, buildVars, countVars,
                   projectVars>>

TraverseNext ==
    \/ \E method \in Methods, name \in ModuleNames, recursive \in BOOLEAN,
          includeSelf \in BOOLEAN : Call(method, name, recursive, includeSelf)
    \/ Visit
    \/ Return

TraverseSpec == TraverseInit /\ [][TraverseNext]_vars

\* a call that has started runs on: the code is synchronous
TraverseFairSpec == TraverseSpec /\ WF_vars(Visit) /\ WF_vars(Return)

\* the nodes reached in a graph from the nodes `names` by one to k edges of the
\* method's direction
RECURSIVE Reach(_, _, _, _)
Reach(graph, method, names, k) ==
    IF k = 0 THEN {}
    ELSE LET next == UNION {IF method = "getDependencies" THEN graph[name].dependencies
                            ELSE graph[name].dependsOn : name \in names \cap DOMAIN graph}
         IN  next \cup Reach(graph, method, next, k - 1)

ReachedIn(method, names, k) == Reach(nodes, method, names, k)

\* C24: a call of getDependencies or getDependsOn returns, on every graph, cycles
\* included; the calls in progress are on distinct nodes, so that a call on a node
\* whose traversal is in progress does not recurse; the set returned holds only nodes
\* reached from the node of the call (and the node itself): for a -> b -> a, a subset
\* of {a, b}.
C24_TraversalTerminates ==
    /\ [](/\ \A i, j \in 1..Len(stack) : i # j => stack[i].node # stack[j].node
          /\ traversed = {stack[i].node : i \in 1..Len(stack)}
          /\ returned.done =>
                returned.value \subseteq
                    {returned.call.node} \cup
                    ReachedIn(returned.call.method, {returned.call.node},
                              Cardinality(ModuleNames)))
    /\ (stack # <<>>) ~> (stack = <<>> /\ returned.done)

\* getDependencies(a, {recursive: true}) has returned {a, b} on the graph a -> b -> a
C24_Witness ==
    /\ returned.done
    /\ returned.call = [method |-> "getDependencies", node |-> "a", recursive |-> TRUE,
                        includeSelf |-> FALSE]
    /\ DOMAIN nodes = {"a", "b"}
    /\ nodes["a"].dependencies = {"b"}
    /\ nodes["b"].dependencies = {"a"}
    /\ returned.value = {"a", "b"}

\* the nodes that `name` reaches by one or more dependency edges
Descendants(name) == Reach(nodes, "getDependencies", {name}, Cardinality(ModuleNames))

\* the nodes that reach `name` by one or more dependency edges
Ancestors(name) == {other \in DOMAIN nodes : name \in Descendants(other)}

----------------------------------------------------------------------------
(* _buildProject of build/buildProject.ts, lines 273-367: the modules of     *)
(* the project are required in the order of getNewModules                   *)

\* the builds of one process
MaxBuilds == 2

\* the modules that the modules `names` import, directly or through one to k imports
RECURSIVE Imported(_, _, _)
Imported(files, names, k) ==
    IF k = 0 THEN {}
    ELSE LET next == UNION {files[name] : name \in names \cap DOMAIN files}
         IN  next \cup Imported(files, next, k - 1)

ImportsOf(files, name) == Imported(files, {name}, Cardinality(DOMAIN files))

\* the modules that import, directly or not, one of the modules `names`
ImportersOf(files, names) == {name \in DOMAIN files : ImportsOf(files, name) \cap names # {}}

\* the projects: no circular import
Projects == {files \in MadgeGraphs : \A name \in DOMAIN files : name \notin ImportsOf(files, name)}

\* node.getDependsOn({recursive: true, includeSelf: true}) (buildProject.ts:91)
getDependsOn(graph, name) ==
    {name} \cup Reach(graph, "getDependsOn", {name}, Cardinality(DOMAIN graph))

\* node.getDependencies({recursive: true}).size (buildProject.ts:96)
dependencyCount(graph, name) ==
    Cardinality(Reach(graph, "getDependencies", {name}, Cardinality(DOMAIN graph)))

\* buildProject.ts:81-98: the nodes of the files given and their dependents, sorted by
\* their number of dependencies; nodes with the same number come in the order of the
\* Set of line 90, which this model does not follow: any order
getNewModules(graph, paths) ==
    LET newModulesDependencies ==
            UNION {getDependsOn(graph, name) : name \in paths \cap DOMAIN graph}
        size == [name \in newModulesDependencies |-> dependencyCount(graph, name)]
    IN  {sorted \in SeqsOver(newModulesDependencies, Cardinality(newModulesDependencies)) :
            /\ Len(sorted) = Cardinality(newModulesDependencies)
            /\ IsInjective(sorted)
            /\ \A i, j \in 1..Len(sorted) : i < j => size[sorted[i]] <= size[sorted[j]]}

\* Faulty variant of toInvalidate: nothing is invalidated.
toInvalidate_None(changed, modules) == {}

\* buildProject.ts:318-319: the nodes whose require cache entry and recorded resources
\* are deleted before the modules are required
toInvalidate(changed, modules) == IF changed.defined THEN Range(modules) ELSE {}

\* require(filePath) (buildProject.ts:347) of a module: nothing when it is in
\* require.cache; else its imports are required first, in order, then its body runs
\* and creates the resource of the module, here named as the module; a module whose
\* load throws is not left in require.cache.  st: [ok, cache, resources]
RECURSIVE require(_, _, _, _)
RECURSIVE requireAll(_, _, _, _)
require(name, files, st, thrower) ==
    IF name \in st.cache THEN st
    ELSE LET imports == requireAll(InOrder(files[name]), files, st, thrower)
         IN  IF ~imports.ok THEN imports
             ELSE IF name = thrower THEN [imports EXCEPT !.ok = FALSE]
             ELSE [ok |-> TRUE, cache |-> imports.cache \cup {name},
                   resources |-> imports.resources \cup {name}]

requireAll(names, files, st, thrower) ==
    IF names = <<>> \/ ~st.ok THEN st
    ELSE requireAll(Tail(names), files, require(Head(names), files, st, thrower), thrower)

ProjectInit ==
    /\ WatchAtRest
    /\ BuildAtRest
    /\ CountAtRest
    /\ GraphAtRest
    /\ ProjectAtRest

\* buildProject.ts:273-331.  files: the project as it is now; paths: the files that
\* changed since the last build, when this is not the first build of the process
\* (a file that is not among them is as it was)
ScanProject(files, paths) ==
    /\ ppc = "idle"
    /\ builds < MaxBuilds
    /\ builds' = builds + 1
    /\ changedFiles' = [defined |-> lastCall.method = "merge",
                        paths |-> IF lastCall.method = "merge" THEN paths ELSE {}]
    /\ IF changedFiles'.defined
       THEN /\ paths # {}
            /\ paths \subseteq DOMAIN files \cup DOMAIN madge
            /\ \A name \in (DOMAIN files \cup DOMAIN madge) \ paths :
                  /\ name \in DOMAIN files \cap DOMAIN madge
                  /\ files[name] = madge[name]
       ELSE paths = {}
    /\ madge' = files
    /\ nodes' = MergeGraphs(nodes, Construct(files))
    /\ lastCall' = [method |-> "merge", names |-> DOMAIN files]
    /\ newModules' \in getNewModules(nodes', IF changedFiles'.defined THEN paths
                                            ELSE DOMAIN files)
    /\ LET invalid == toInvalidate(changedFiles', newModules')
       IN  /\ requireCache' = requireCache \ invalid
           /\ packResources' =
                 packResources \ UNION {fileResources[name] :
                                           name \in invalid \cap DOMAIN fileResources}
    /\ built' = 0
    /\ thrown' = {}
    /\ ppc' = "execute"
    /\ UNCHANGED <<fileResources, resourcesCall, traverseVars, watchVars, buildVars,
                   countVars>>

\* buildProject.ts:334-363, one iteration.  thrower: the module whose body throws if it
\* runs in this iteration
ExecuteModule(thrower) ==
    /\ ppc = "execute"
    /\ built < Len(newModules)
    /\ LET node == newModules[built + 1]
           before == [ok |-> TRUE, cache |-> requireCache, resources |-> packResources]
           after == IF node \in DOMAIN madge     \* fs.pathExists(filePath)
                    THEN require(node, madge, before, thrower)
                    ELSE before
       IN  /\ requireCache' = after.cache
           /\ packResources' = after.resources
           /\ thrown' = IF after.ok THEN thrown ELSE thrown \cup {node}
           /\ fileResources' = Put(fileResources, node, after.resources \ packResources)
    /\ built' = built + 1
    /\ UNCHANGED <<madge, changedFiles, newModules, ppc, builds, resourcesCall, graphVars,
                   watchVars, buildVars, countVars>>

\* buildProject.ts:365-367 and after: the build returns, at once when a module threw
EndProject ==
    /\ ppc = "execute"
    /\ built = Len(newModules)
    /\ ppc' = "idle"
    /\ newModules' = <<>>
    /\ built' = 0
    /\ thrown' = {}
    /\ changedFiles' = [defined |-> FALSE, paths |-> {}]
    /\ UNCHANGED <<madge, requireCache, packResources, fileResources, builds, resourcesCall,
                   graphVars, watchVars, buildVars, countVars>>

ProjectNext ==
    \/ \E files \in Projects, paths \in SUBSET ModuleNames : ScanProject(files, paths)
    \/ \E thrower \in ModuleNames \cup {"none"} : ExecuteModule(thrower)
    \/ EndProject

ProjectSpec == ProjectInit /\ [][ProjectNext]_vars

\* C25 (as claimed): no module of a build pass comes, in the order of the pass, before
\* a module of the pass that it imports, directly or not.
C25_DependenciesFirst ==
    ppc = "execute" =>
        \A i, j \in 1..Len(newModules) :
            i < j => newModules[j] \notin ImportsOf(madge, newModules[i])

\* C26 (as claimed): once the require of a module has thrown, the pass does not run
\* the modules that import it: their iteration requires nothing.
C26_DependentsOfFailedSkipped ==
    [][(/\ ppc = "execute"
        /\ built' = built + 1
        /\ thrown \cap ImportsOf(madge, newModules[built']) # {}) =>
            /\ requireCache' = requireCache
            /\ packResources' = packResources
            /\ thrown' = thrown]_vars

\* C27 (as claimed): the modules of an incremental pass are, each once, the changed
\* files and the modules that import them, directly or not.
C27_ExactlyAffected ==
    (ppc = "execute" /\ changedFiles.defined) =>
        /\ IsInjective(newModules)
        /\ Range(newModules) \cap DOMAIN madge =
              (changedFiles.paths \cap DOMAIN madge)
                  \cup ImportersOf(madge, changedFiles.paths \cap DOMAIN madge)

\* C28: in an incremental build, when the loop that requires the modules starts, no
\* module of the pass is in require.cache and no resource recorded for one of them is
\* in the pack; after the iteration of a module, its record is the resources that are
\* in the pack and were not before the iteration.
C28_InvalidatedThenRecorded ==
    /\ []((ppc = "execute" /\ changedFiles.defined /\ built = 0) =>
            \A name \in Range(newModules) :
                /\ name \notin requireCache
                /\ name \in DOMAIN fileResources =>
                      fileResources[name] \cap packResources = {})
    /\ [][(ppc = "execute" /\ built' = built + 1) =>
            fileResources'[newModules[built']] = packResources' \ packResources]_vars

\* in an incremental build, a module that had a recorded resource has been required
\* again and has its resource recorded again
C28_Witness ==
    /\ ppc = "execute"
    /\ changedFiles.defined
    /\ built = 1
    /\ newModules[1] \in requireCache
    /\ fileResources[newModules[1]] = {newModules[1]}
    /\ newModules[1] \in changedFiles.paths

----------------------------------------------------------------------------
(* _buildProject of build/buildProject.ts, lines 369-633: the pack is saved, *)
(* the resources folder copied, the stale files deleted, the cache replaced *)
(* and persisted.  Default save options, one pack type, no dry run, no      *)
(* module threw (line 365).                                                 *)

\* what the steps of this part leave alone
PipelineFrame ==
    /\ UNCHANGED <<dry, bpc, worldName, root, result, context, imported, written,
                   otherWrites, atStart, repeat>>
    /\ UNCHANGED <<madge, changedFiles, newModules, built, requireCache, packResources,
                   fileResources, thrown>>
    /\ UNCHANGED <<watchVars, countVars, graphVars>>

PipelineInit ==
    /\ WatchAtRest
    /\ BuildAtRest
    /\ CountAtRest
    /\ GraphAtRest
    /\ ProjectAtRest

\* lines 369-389: a new newCache; the cache of the process, else the cache file, else {}.
\* pl: what this build produces.  The next build of the model starts when the copies
\* of the one before are over.
BeginSave(pl) ==
    /\ ppc = "idle"
    /\ resourcesCall # "pending"
    /\ builds < MaxBuilds
    /\ builds' = builds + 1
    /\ ppc' = "save"
    /\ plan' = pl
    /\ newCache' = NoEntries
    /\ saved' = 0
    /\ copied' = 0
    /\ deleted' = {}
    /\ resourcesCall' = "notCalled"
    /\ cache' = IF cache.defined THEN cache
                ELSE IF cacheFile.state = "json"
                THEN [defined |-> TRUE, entries |-> cacheFile.entries]
                ELSE [defined |-> TRUE, entries |-> NoEntries]
    /\ UNCHANGED <<cacheFile, output>>
    /\ PipelineFrame

\* the file handler (lines 410-446), called by sandstonePack.save, which line 405
\* awaits, for the next generated file
HandGenerated ==
    /\ ppc = "save"
    /\ saved < Len(plan.generated)
    /\ LET file == plan.generated[saved + 1]
           hashValue == hash(file.content \o file.path)
       IN  /\ saved' = saved + 1
           /\ newCache' = Put(newCache, file.path, hashValue)
           /\ output' = IF Lookup(cache.entries, file.path) = hashValue THEN output
                        ELSE Put(output, file.path, file.content)
    /\ UNCHANGED <<cache, cacheFile, plan, copied, deleted, ppc, builds, resourcesCall>>
    /\ PipelineFrame

\* lines 612-614: the keys of cache, without the keys of newCache
stale(old, new) == DOMAIN old \ DOMAIN new

\* lines 611-620: the stale files are computed and removed
DeleteOld ==
    /\ deleted' = stale(cache.entries, newCache)
    /\ output' = Without(output, deleted')
    /\ ppc' = "override"

\* lines 503-609: the loop over the pack types calls handleResources without await
\* (522, 603); the call runs to its first await, before any file is read, and the
\* loop goes on.  In a production build (586-608) nothing is awaited after the
\* call: lines 611-620 run in the same turn.  Otherwise the export to the client
\* (543-548) is awaited.
CallHandleResources(production) ==
    /\ ppc = "save"
    /\ saved = Len(plan.generated)
    /\ resourcesCall' = "pending"
    /\ IF production
       THEN DeleteOld
       ELSE ppc' = "export" /\ UNCHANGED <<output, deleted>>
    /\ UNCHANGED <<cache, cacheFile, newCache, plan, saved, copied, builds>>
    /\ PipelineFrame

\* the export is over, lines 611-620 run
Deletion ==
    /\ ppc = "export"
    /\ DeleteOld
    /\ UNCHANGED <<cache, cacheFile, newCache, plan, saved, copied, builds, resourcesCall>>
    /\ PipelineFrame

\* handleResources (lines 449-490) on the next file of the resources folder.  After
\* line 626 the object it fills is the cache of the process.
HandleResource ==
    /\ resourcesCall = "pending"
    /\ copied < Len(plan.resources)
    /\ LET file == plan.resources[copied + 1]
           hashValue == hash(file.content \o file.path)
       IN  /\ copied' = copied + 1
           /\ newCache' = Put(newCache, file.path, hashValue)
           /\ cache' = IF ppc \in {"afterAll", "idle"}
                       THEN [cache EXCEPT !.entries = Put(@, file.path, hashValue)]
                       ELSE cache
           /\ output' = IF Lookup(cache.entries, file.path) = hashValue THEN output
                        ELSE Put(output, file.path, file.content)
    /\ UNCHANGED <<cacheFile, plan, saved, deleted, ppc, builds, resourcesCall>>
    /\ PipelineFrame

\* the loop of handleResources is over, its promise resolves
ResourcesSettled ==
    /\ resourcesCall = "pending"
    /\ copied = Len(plan.resources)
    /\ resourcesCall' = "settled"
    /\ UNCHANGED <<cache, cacheFile, output, newCache, plan, saved, copied, deleted, ppc,
                   builds>>
    /\ PipelineFrame

\* lines 625-629: cache = newCache, and the cache file is written
OverrideCache ==
    /\ ppc = "override"
    /\ ppc' = "afterAll"
    /\ cache' = [defined |-> TRUE, entries |-> newCache]
    /\ cacheFile' = [state |-> "json", entries |-> newCache]
    /\ UNCHANGED <<output, newCache, plan, saved, copied, deleted, builds, resourcesCall>>
    /\ PipelineFrame

\* lines 631-633: the afterAll script, and _buildProject returns
EndSave ==
    /\ ppc = "afterAll"
    /\ ppc' = "idle"
    /\ UNCHANGED <<cache, cacheFile, output, newCache, plan, saved, copied, deleted, builds,
                   resourcesCall>>
    /\ PipelineFrame

PipelineNext ==
    \/ \E pl \in Plans : BeginSave(pl)
    \/ HandGenerated
    \/ \E production \in BOOLEAN : CallHandleResources(production)
    \/ Deletion
    \/ HandleResource
    \/ ResourcesSettled
    \/ OverrideCache
    \/ EndSave

PipelineSpec == PipelineInit /\ [][PipelineNext]_vars

\* C33 (as claimed): when the stale files have been computed, and when the cache is
\* replaced and persisted, every record and write of the build is done, those of
\* handleResources included: no file of the resources folder is left to copy.
C33_WritesBeforeDeletion ==
    ppc \in {"override", "afterAll"} => copied = Len(plan.resources)

----------------------------------------------------------------------------
(* The watch command on chokidar (src/unnamed/part_004, lines 1-123), which  *)
(* hands the changed paths to buildProject.  alreadyBuilding and needRebuild *)
(* are its variables of lines 52-53, debouncedChanges its list `files`       *)
(* (line 101), debounceTimers its pending timeout (line 100), inflight the   *)
(* onFilesChange call past the guard with its argument `paths`.             *)

\* what the steps of this part leave alone
ChokidarFrame ==
    /\ UNCHANGED <<manual, pendingChanges, buildContext, hotInitialized, lastBuildFailed,
                   restartTimeout, mainPc, subscription, ui, status, exiting, processExit,
                   arrivals, unbuilt>>
    /\ UNCHANGED <<buildVars, countVars, graphVars, projectVars>>

ChokidarInit ==
    /\ WatchAtRest
    /\ BuildAtRest
    /\ CountAtRest
    /\ GraphAtRest
    /\ ProjectAtRest

\* lines 108-119: an event on a watched file: the path is pushed, the timer is armed
\* anew
FileEvent(eventPath) ==
    /\ Len(debouncedChanges) < MaxPending
    /\ debouncedChanges' = Append(debouncedChanges, eventPath)
    /\ debounceTimers' = 1
    /\ debounceScheduled' = TRUE
    /\ UNCHANGED <<alreadyBuilding, needRebuild, inflight, arrived>>
    /\ ChokidarFrame

\* lines 72-81: onFilesChange(paths) up to the await of buildProject
startOrQueue(paths) ==
    IF alreadyBuilding
    THEN /\ needRebuild' = TRUE
         /\ arrived' = arrived \cup Range(paths)
         /\ UNCHANGED <<alreadyBuilding, inflight>>
    ELSE /\ alreadyBuilding' = TRUE
         /\ inflight' = <<[changes |-> paths]>>
         /\ arrived' = {}
         /\ UNCHANGED needRebuild

\* lines 115-118: the timer runs: onFilesChange(files), then files = []
TimerFire ==
    /\ debounceTimers = 1
    /\ debounceTimers' = 0
    /\ debounceScheduled' = FALSE
    /\ debouncedChanges' = <<>>
    /\ startOrQueue(debouncedChanges)
    /\ ChokidarFrame

\* lines 81-89: buildProject returned (it never throws, buildProject.ts:644-651);
\* the guard is released and, when a rebuild is needed, onFilesChange(paths) is called
\* with the argument of this call
BuildReturned ==
    /\ inflight # <<>>
    /\ IF needRebuild
       THEN /\ needRebuild' = FALSE
            /\ alreadyBuilding' = TRUE
            /\ inflight' = <<[changes |-> inflight[1].changes]>>
            /\ UNCHANGED arrived
       ELSE /\ alreadyBuilding' = FALSE
            /\ inflight' = <<>>
            /\ arrived' = {}
            /\ UNCHANGED needRebuild
    /\ UNCHANGED <<debouncedChanges, debounceTimers, debounceScheduled>>
    /\ ChokidarFrame

ChokidarNext ==
    \/ \E eventPath \in ModuleNames : FileEvent(eventPath)
    \/ TimerFire
    \/ BuildReturned

ChokidarSpec == ChokidarInit /\ [][ChokidarNext]_vars

\* C34 (as claimed): the rebuild that runs after a build during which files changed is
\* called with the paths that changed during that build.
C34_RebuildGetsNewPaths ==
    [][(inflight # <<>> /\ needRebuild /\ ~needRebuild') =>
          arrived \subseteq Range(inflight'[1].changes)]_vars

====
